---- MODULE Spec2Model ----
(* Model of update_vendor_payable_report.py: filter_ap_analysis and          *)
(* aggregate_vendor_data_by_date over in-memory tables.                      *)
(*                                                                           *)
(* A table is [cols |-> set of column names, rows |-> sequence of rows]; a   *)
(* row maps every column name to a cell.  A cell is a record                 *)
(*   [kind |-> "str" | "na" | "num", text |-> sequence of tokens, val |-> n] *)
(* "str" is a text cell (read_csv(dtype=str)), "na" a missing value (NaN),   *)
(* "num" a float64 cell holding val hundredths.  Amount and account texts    *)
(* are sequences of characters; type, merch, category and vendor texts are   *)
(* sequences of words and whitespace characters; a date text is a calendar   *)
(* day token optionally followed by a time-of-day token.                     *)
EXTENDS Integers, Sequences, FiniteSets, TLC

VARIABLES df, op, args, outcome, errFields, out, tmp

vars == <<df, op, args, outcome, errFields, out, tmp>>

----------------------------------------------------------------------------
(* Cells *)

Str(t) == [kind |-> "str", text |-> t, val |-> 0]
NA == [kind |-> "na", text |-> <<>>, val |-> 0]
Num(v) == [kind |-> "num", text |-> <<>>, val |-> v]

Digits == {"0", "1", "2", "3", "4", "5", "6", "7", "8", "9"}
DigitChars == <<"0", "1", "2", "3", "4", "5", "6", "7", "8", "9">>
DigitVal(c) == (CHOOSE i \in 1..10 : DigitChars[i] = c) - 1

Abs(n) == IF n < 0 THEN -n ELSE n

RECURSIVE DigitsValue(_)
DigitsValue(s) ==
  IF s = <<>> THEN 0
  ELSE DigitsValue(SubSeq(s, 1, Len(s) - 1)) * 10 + DigitVal(s[Len(s)])

RECURSIVE IntToDigits(_)
IntToDigits(n) ==
  IF n < 10 THEN <<DigitChars[n + 1]>>
  ELSE IntToDigits(n \div 10) \o <<DigitChars[(n % 10) + 1]>>

\* Number of fraction digits an amount is held with (hundredths).
FracDigits == 2
Scale == 100

\* repr of a float64 holding v hundredths: "500.0", "-5.25", "0.5".
FormatFloat(v) ==
  LET a == Abs(v)
      fp == a % Scale
      frac == IF fp % 10 = 0 THEN <<DigitChars[(fp \div 10) + 1]>>
              ELSE <<DigitChars[(fp \div 10) + 1], DigitChars[(fp % 10) + 1]>>
  IN (IF v < 0 THEN <<"-">> ELSE <<>>) \o IntToDigits(a \div Scale) \o <<".">> \o frac

\* Series.astype(str) on a column of characters / of words.
AsTypeStr(c) ==
  CASE c.kind = "str" -> c.text
    [] c.kind = "na" -> <<"n", "a", "n">>
    [] OTHER -> FormatFloat(c.val)

AsTypeStrWords(c) ==
  CASE c.kind = "str" -> c.text
    [] c.kind = "na" -> <<"nan">>
    [] OTHER -> <<"number">>

----------------------------------------------------------------------------
(* String methods *)

WS == {" ", "\t"}

RECURSIVE LStrip(_)
LStrip(s) == IF s # <<>> /\ Head(s) \in WS THEN LStrip(Tail(s)) ELSE s

RECURSIVE RStrip(_)
RStrip(s) ==
  IF s # <<>> /\ s[Len(s)] \in WS THEN RStrip(SubSeq(s, 1, Len(s) - 1)) ELSE s

StrStrip(s) == RStrip(LStrip(s))

\* str.replace(c, "", regex=False)
StrRemove(s, c) == SelectSeq(s, LAMBDA x : x # c)

\* str.replace(c, d, regex=False) for single characters
StrReplaceChar(s, c, d) == [i \in 1..Len(s) |-> IF s[i] = c THEN d ELSE s[i]]

\* str.casefold on the words of the vocabulary
CaseFoldWord(w) ==
  CASE w \in {"Bill", "BILL"} -> "bill"
    [] w \in {"Vendor", "VENDOR"} -> "vendor"
    [] w = "Credit" -> "credit"
    [] w = "Item" -> "item"
    [] w = "Receipt" -> "receipt"
    [] w \in {"Journal", "JOURNAL"} -> "journal"
    [] w = "Entry" -> "entry"
    [] w = "Payment" -> "payment"
    [] w = "Prepayment" -> "prepayment"
    [] w = "Application" -> "application"
    [] w = "VendorBill" -> "vendorbill"
    [] w = "ItemReceipt" -> "itemreceipt"
    [] w = "BillPayment" -> "billpayment"
    [] w = "VendorPrepayment" -> "vendorprepayment"
    [] w = "Check" -> "check"
    [] w \in {"Home", "HOME"} -> "home"
    [] w \in {"Services", "SERVICES"} -> "services"
    [] w = "Merch" -> "merch"
    [] OTHER -> w

StrCaseFold(s) == [i \in 1..Len(s) |-> CaseFoldWord(s[i])]

\* str.replace(r"\s+", " ", regex=True)
RECURSIVE CollapseWs(_)
CollapseWs(s) ==
  IF s = <<>> THEN <<>>
  ELSE IF Head(s) \in WS THEN <<" ">> \o CollapseWs(LStrip(s))
  ELSE <<Head(s)>> \o CollapseWs(Tail(s))

----------------------------------------------------------------------------
(* Amount normalisation and numeric parsing *)

NormalizeAmountText(s) ==
  StrRemove(
    StrReplaceChar(StrRemove(StrRemove(StrStrip(s), "$"), ","), "(", "-"),
    ")")

\* pd.to_numeric(text, errors="coerce") on one text: [ok, val] with val in
\* hundredths; ok = FALSE is NaN.  Texts carry at most FracDigits fraction
\* digits.
ToNumeric(s0) ==
  LET s == StrStrip(s0)
      signed == s # <<>> /\ Head(s) \in {"-", "+"}
      body == IF signed THEN Tail(s) ELSE s
      dots == {i \in 1..Len(body) : body[i] = "."}
      dot == IF dots = {} THEN Len(body) + 1 ELSE CHOOSE i \in dots : TRUE
      ip == SubSeq(body, 1, dot - 1)
      fp == SubSeq(body, dot + 1, Len(body))
      ok == /\ Cardinality(dots) <= 1
            /\ \A i \in 1..Len(ip) : ip[i] \in Digits
            /\ \A i \in 1..Len(fp) : fp[i] \in Digits
            /\ Len(ip) + Len(fp) >= 1
            /\ Len(fp) <= FracDigits
      fv == IF Len(fp) = 1 THEN DigitsValue(fp) * 10 ELSE DigitsValue(fp)
      mag == DigitsValue(ip) * Scale + fv
  IN IF ok THEN [ok |-> TRUE, val |-> IF signed /\ Head(s) = "-" THEN -mag ELSE mag]
     ELSE [ok |-> FALSE, val |-> 0]

AmountToNumeric(c) == ToNumeric(NormalizeAmountText(AsTypeStr(c)))

----------------------------------------------------------------------------
(* Account code, type label, dates *)

\* NaN in the float column _acct
NoCode == -1

\* str.extract(r"^\s*(\d{5})") followed by pd.to_numeric(errors="coerce")
ExtractAcctNoAnchorSkip(s) ==
  IF Len(s) >= 5 /\ \A i \in 1..5 : s[i] \in Digits
  THEN DigitsValue(SubSeq(s, 1, 5)) ELSE NoCode

ExtractAcct(s) ==
  LET t == LStrip(s)
  IN IF Len(t) >= 5 /\ \A i \in 1..5 : t[i] \in Digits
     THEN DigitsValue(SubSeq(t, 1, 5)) ELSE NoCode

\* Series.replace({...}, regex=False): whole-value replacement
TypeSynonym(t) ==
  CASE t = <<"bill">> -> <<"vendor", " ", "bill">>
    [] t = <<"vendorbill">> -> <<"vendor", " ", "bill">>
    [] t = <<"vendor", " ", " ", "bill">> -> <<"vendor", " ", "bill">>
    [] t = <<"journal", " ", "entry">> -> <<"journal">>
    [] t = <<"itemreceipt">> -> <<"item", " ", "receipt">>
    [] t = <<"billpayment">> -> <<"bill", " ", "payment">>
    [] t = <<"vendorprepayment">> -> <<"vendor", " ", "prepayment">>
    [] t = <<"vendorprepayment", " ", "application">>
         -> <<"vendor", " ", "prepayment", " ", "application">>
    [] OTHER -> t

CanonType(c) == TypeSynonym(CollapseWs(StrCaseFold(StrStrip(AsTypeStrWords(c)))))

\* Calendar days and times of day a date text can name, in increasing order.
DayTokens == <<"2025-08-17", "2025-08-18", "2025-08-19", "2025-08-20",
               "2025-08-21", "2025-08-22">>
TimeTokens == <<"T00:00", "T23:59">>
TicksPerDay == Len(TimeTokens)

IndexOf(seq, x) == CHOOSE i \in 1..Len(seq) : seq[i] = x
InSeq(seq, x) == \E i \in 1..Len(seq) : seq[i] = x

\* NaT
NaT == -1

\* Whether a cell holds a text pd.to_datetime can parse.
DateParses(c) ==
  /\ c.kind = "str"
  /\ Len(c.text) \in {1, 2}
  /\ InSeq(DayTokens, c.text[1])
  /\ Len(c.text) = 2 => InSeq(TimeTokens, c.text[2])

\* The timestamp (in ticks) pd.to_datetime gives for a parseable cell.
Timestamp(c) ==
  IndexOf(DayTokens, c.text[1]) * TicksPerDay
    + (IF Len(c.text) = 2 THEN IndexOf(TimeTokens, c.text[2]) - 1 ELSE 0)

\* pd.to_datetime(x, errors=mode), element by element: [raised, ts].  A text
\* that is no date raises under "raise" and is NaT under "coerce"; a missing
\* value is NaT under both.
ToDatetime(c, mode) ==
  IF DateParses(c) THEN [raised |-> FALSE, ts |-> Timestamp(c)]
  ELSE IF c.kind = "str" /\ mode = "raise" THEN [raised |-> TRUE, ts |-> NaT]
  ELSE [raised |-> FALSE, ts |-> NaT]

\* Timestamp.normalize / Series.dt.normalize: midnight of the same day
NormalizeTruncNothing(ts) == ts

Normalize(ts) == IF ts = NaT THEN NaT ELSE ts - (ts % TicksPerDay)

\* errors= argument of the conversion of the date column
DateColErrorsRaise == "raise"

DateColErrors == "coerce"

----------------------------------------------------------------------------
(* Classification rules *)

ACCRUED_ACCTS == {21109, 21142}
BILL_ACCTS == {21142, 21110, 21117}
PAY_ACCTS == {13150, 21110, 21117}

T_VendorBill == <<"vendor", " ", "bill">>
T_BillCredit == <<"bill", " ", "credit">>
T_ItemReceipt == <<"item", " ", "receipt">>
T_VendorCredit == <<"vendor", " ", "credit">>
T_Journal == <<"journal">>
T_BillPayment == <<"bill", " ", "payment">>
T_VendorPrepayment == <<"vendor", " ", "prepayment">>
T_VendorPrepaymentApplication == <<"vendor", " ", "prepayment", " ", "application">>

ACCRUED_TYPES == {T_VendorBill, T_BillCredit, T_ItemReceipt}
BILL_TYPES == {T_VendorBill, T_BillCredit, T_VendorCredit, T_Journal}
PAY_TYPES == {T_BillPayment, T_VendorPrepayment, T_VendorPrepaymentApplication}

accrued_mask(acct, type) == acct \in ACCRUED_ACCTS /\ type \in ACCRUED_TYPES
bill_mask(acct, type) == acct \in BILL_ACCTS /\ type \in BILL_TYPES
pay_mask(acct, type) == acct \in PAY_ACCTS /\ type \in PAY_TYPES
journal_adj_mask_coded(acct, type) ==
  type = T_Journal /\ acct # NoCode /\ ~(acct \in BILL_ACCTS)

journal_adj_mask(acct, type) == type = T_Journal /\ ~(acct \in BILL_ACCTS)

\* cls = "other", then masked in the order payment, accrued, bill, adjustments
ClassifyBillBeforeAccrued(acct, type) ==
  IF pay_mask(acct, type) THEN "payment"
  ELSE IF bill_mask(acct, type) THEN "bill"
  ELSE IF accrued_mask(acct, type) THEN "accrued"
  ELSE IF journal_adj_mask(acct, type) THEN "adjustments"
  ELSE "other"

Classify(acct, type) ==
  LET c1 == IF pay_mask(acct, type) THEN "payment" ELSE "other"
      c2 == IF c1 = "other" /\ accrued_mask(acct, type) THEN "accrued" ELSE c1
      c3 == IF c2 = "other" /\ bill_mask(acct, type) THEN "bill" ELSE c2
      c4 == IF c3 = "other" /\ journal_adj_mask(acct, type) THEN "adjustments" ELSE c3
  IN c4

\* _amt.where(_class == cls, 0.0)
WhereAnyClass(amt, class, cls) == IF class # "other" THEN amt ELSE 0

Where(amt, class, cls) == IF class = cls THEN amt ELSE 0

----------------------------------------------------------------------------
(* Tables *)

AllCols == {"Date", "Amount", "Account", "Type", "Name", "merchType", "Category"}
SummaryCols == {"Vendor", "Accrued Purchases", "Adjustments", "Bill", "Payment"}
NoTable == [cols |-> {}, rows |-> <<>>]

\* A DataFrame object: a table with the identity of the object holding it.
Obj(i, t) == [id |-> i, cols |-> t.cols, rows |-> t.rows]
TableOf(o) == [cols |-> o.cols, rows |-> o.rows]

\* df.copy(): a new object with the same content
DfCopyAlias(o) == o

DfCopy(o) == [o EXCEPT !.id = o.id + 1]

\* What the caller's object d holds after o was written to: the write is
\* visible through d exactly when o is the same object.
InputAfter(d, o) == IF o.id = d.id THEN TableOf(o) ELSE TableOf(d)

Result(kind, fields, ret, input, work) ==
  [outcome |-> kind, errFields |-> fields, ret |-> ret, input |-> input, work |-> work]

----------------------------------------------------------------------------
(* filter_ap_analysis *)

keep_merch_value == <<"Merch">>
keep_category_value == <<"Home", " ", "Services">>

\* Series.fillna("") on a text column
FillNaEmpty(c) == IF c.kind = "na" THEN <<>> ELSE AsTypeStrWords(c)

\* out[amount_col].notna() & (out[amount_col] != 0)
AmountMaskKeepZero(c) == c.kind = "num"

AmountMask(c) == c.kind = "num" /\ c.val # 0

\* out[merch_col].fillna("").eq(keep_merch_value)
MerchMaskCaseFold(c) == StrCaseFold(FillNaEmpty(c)) = StrCaseFold(keep_merch_value)

MerchMask(c) == FillNaEmpty(c) = keep_merch_value

\* out[category_col].fillna("").str.strip().str.casefold() == keep_category_value.casefold()
CategoryMask(c) ==
  StrCaseFold(StrStrip(FillNaEmpty(c))) = StrCaseFold(keep_category_value)

\* out[amount_col] = pd.to_numeric(amt, errors="coerce"), written into object o
CoerceAmountColumn(o) ==
  [o EXCEPT !.rows =
     [i \in 1..Len(o.rows) |->
        LET n == AmountToNumeric(o.rows[i].Amount)
        IN [o.rows[i] EXCEPT !.Amount = IF n.ok THEN Num(n.val) ELSE NA]]]

\* The name the KeyError of filter_ap_analysis carries when several columns
\* are absent: the checks run one at a time, in the order amount, merch,
\* category, and the first absent one raises.
FilterErrFields(cols) ==
  IF "Amount" \notin cols THEN {"Amount"}
  ELSE IF "merchType" \notin cols THEN {"merchType"}
  ELSE IF "Category" \notin cols THEN {"Category"}
  ELSE {}

filter_ap_analysis(d) ==
  LET out0 == DfCopy(d)
      out1 == CoerceAmountColumn(out0)
      out2 == SelectSeq(out1.rows, LAMBDA r : AmountMask(r.Amount))
      out3 == SelectSeq(out2, LAMBDA r : MerchMask(r.merchType))
      out4 == SelectSeq(out3, LAMBDA r : CategoryMask(r.Category))
  IN IF "Amount" \notin out0.cols
       THEN Result("KeyError", FilterErrFields(d.cols), NoTable, InputAfter(d, out0), <<>>)
     ELSE IF "merchType" \notin out1.cols \/ "Category" \notin out1.cols
       THEN Result("KeyError", FilterErrFields(d.cols), NoTable, InputAfter(d, out1), <<>>)
     ELSE Result("ok", {}, [cols |-> out1.cols, rows |-> out4], InputAfter(d, out1), <<>>)

----------------------------------------------------------------------------
(* aggregate_vendor_data_by_date *)

Required == {"Date", "Amount", "Account", "Type", "Name"}

\* required - set(df.columns), all of it listed in the KeyError
AggregateErrFieldsFirstOnly(cols) ==
  IF Required \subseteq cols THEN {}
  ELSE {CHOOSE c \in Required \ cols : TRUE}

AggregateErrFields(cols) == Required \ cols

\* (tmp["_date"] >= s) & (tmp["_date"] <= e); comparisons with NaT are False
InWindowExclusiveEnd(d, s, e) == d # NaT /\ d >= s /\ d < e

InWindow(d, s, e) == d # NaT /\ d >= s /\ d <= e

\* s > e on the normalized arguments
StartAfterEndOrEqual(s, e) == s >= e

StartAfterEnd(s, e) == s > e

\* tmp["_date"] = pd.to_datetime(tmp[date_col], errors=...).dt.normalize(),
\* written into object o
AddDateColumn(o) ==
  [o EXCEPT !.cols = @ \cup {"_date"},
            !.rows = [i \in 1..Len(o.rows) |->
                        ("_date" :> Normalize(ToDatetime(o.rows[i].Date, DateColErrors).ts))
                          @@ o.rows[i]]]

\* The working row of tmp for row i of the input: the helper columns and
\* the four contribution columns.
\* pd.to_numeric(amt, errors="coerce").fillna(0.0)
FillNa0(n) == IF n.ok THEN n.val ELSE 0

WorkRow(o, i) ==
  LET r == o.rows[i]
      amt == FillNa0(AmountToNumeric(r.Amount))
      acct == ExtractAcct(AsTypeStr(r.Account))
      type == CanonType(r.Type)
      class == Classify(acct, type)
  IN [idx |-> i, Name |-> r.Name, _date |-> r._date, _amt |-> amt, _acct |-> acct,
      _type |-> type, _class |-> class,
      AccruedPurchases |-> Where(amt, class, "accrued"),
      Bill |-> Where(amt, class, "bill"),
      Payment |-> Where(amt, class, "payment"),
      Adjustments |-> Where(amt, class, "adjustments")]

\* Vendor names in the order Python compares strings.
VendorOrder == << <<"Acme">>, <<"Acme", " ">>, <<"Bolt">>, <<"acme">> >>

RECURSIVE SumCol(_, _)
SumCol(rows, col) ==
  IF rows = <<>> THEN 0 ELSE Head(rows)[col] + SumCol(Tail(rows), col)

\* groupby(vendor_col, as_index=False)[...].sum(): one row per key, keys
\* sorted, rows with a missing key dropped
GroupKeysKeepNa(work) == {work[i].Name : i \in 1..Len(work)}

GroupKeys(work) == {work[i].Name : i \in {j \in 1..Len(work) : work[j].Name.kind # "na"}}

GroupRow(work, key) ==
  LET g == SelectSeq(work, LAMBDA w : w.Name = key)
  IN [Vendor |-> key,
      AccruedPurchases |-> SumCol(g, "AccruedPurchases"),
      Adjustments |-> SumCol(g, "Adjustments"),
      Bill |-> SumCol(g, "Bill"),
      Payment |-> SumCol(g, "Payment")]

VendorRank(key) == IF key.kind = "str" /\ InSeq(VendorOrder, key.text)
                   THEN IndexOf(VendorOrder, key.text) ELSE 0

RECURSIVE SortedKeys(_)
SortedKeys(keys) ==
  IF keys = {} THEN <<>>
  ELSE LET k == CHOOSE x \in keys : \A y \in keys : VendorRank(x) <= VendorRank(y)
       IN <<k>> \o SortedKeys(keys \ {k})

GroupBySum(work) ==
  LET ks == SortedKeys(GroupKeys(work))
  IN [i \in 1..Len(ks) |-> GroupRow(work, ks[i])]

aggregate_vendor_data_by_date(d, start_date, end_date) ==
  LET missing == AggregateErrFields(d.cols)
      sd == ToDatetime(start_date, "raise")
      ed == ToDatetime(end_date, "raise")
      s == Normalize(sd.ts)
      e == Normalize(ed.ts)
      tmp0 == DfCopy(d)
      rowRaised == \E i \in 1..Len(tmp0.rows) :
                      ToDatetime(tmp0.rows[i].Date, DateColErrors).raised
      tmp1 == AddDateColumn(tmp0)
      inWin == SelectSeq([i \in 1..Len(tmp1.rows) |-> i],
                         LAMBDA i : InWindow(tmp1.rows[i]._date, s, e))
      work == [k \in 1..Len(inWin) |-> WorkRow(tmp1, inWin[k])]
  IN IF missing # {}
       THEN Result("KeyError", missing, NoTable, TableOf(d), <<>>)
     ELSE IF sd.raised \/ ed.raised \/ s = NaT \/ e = NaT \/ StartAfterEnd(s, e)
       THEN Result("ValueError", {}, NoTable, TableOf(d), <<>>)
     ELSE IF rowRaised
       THEN Result("ValueError", {}, NoTable, InputAfter(d, tmp0), <<>>)
     ELSE IF work = <<>>
       THEN Result("ok", {}, [cols |-> SummaryCols, rows |-> <<>>], InputAfter(d, tmp1), <<>>)
     ELSE Result("ok", {}, [cols |-> SummaryCols, rows |-> GroupBySum(work)],
                 InputAfter(d, tmp1), work)

----------------------------------------------------------------------------
(* Operations *)

Call(name, a, r) ==
  /\ df' = r.input
  /\ op' = name
  /\ args' = a
  /\ outcome' = r.outcome
  /\ errFields' = r.errFields
  /\ out' = r.ret
  /\ tmp' = r.work

FilterApAnalysis == Call("filter", <<>>, filter_ap_analysis(Obj(0, df)))

AggregateVendorDataByDate(start_date, end_date) ==
  Call("aggregate", <<start_date, end_date>>,
       aggregate_vendor_data_by_date(Obj(0, df), start_date, end_date))

\* __main__: the table filter_ap_analysis returned is the argument of
\* aggregate_vendor_data_by_date
UseReport ==
  /\ op = "filter"
  /\ outcome = "ok"
  /\ df' = out
  /\ op' = "report"
  /\ args' = <<>>
  /\ outcome' = "none"
  /\ errFields' = {}
  /\ out' = NoTable
  /\ tmp' = <<>>

InitWith(tables) ==
  /\ df \in tables
  /\ op = "none"
  /\ args = <<>>
  /\ outcome = "none"
  /\ errFields = {}
  /\ out = NoTable
  /\ tmp = <<>>

----------------------------------------------------------------------------
(* Inputs *)

Row(date, amount, account, type, name, merch, category) ==
  [Date |-> date, Amount |-> amount, Account |-> account, Type |-> type,
   Name |-> name, merchType |-> merch, Category |-> category]

Tables(cols, rows, n) ==
  {[cols |-> cols, rows |-> r] : r \in UNION {[1..k -> rows] : k \in 0..n}}

Chars5 == <<"$", "5">>
CharsNeg2 == <<"(", "2", ")">>
CharsZero == <<"$", "0", ".", "0", "0">>
CharsBig == <<"(", "1", ",", "2", "3", "4", ".", "5", "6", ")">>
CharsBad == <<"x">>

Acme == Str(<<"Acme">>)
MerchOk == Str(<<"Merch">>)
CategoryOk == Str(<<"Home", " ", "Services">>)
Day(d) == Str(<<DayTokens[d]>>)
DayTime(d, t) == Str(<<DayTokens[d], TimeTokens[t]>>)
BadDate == Str(<<"not-a-date">>)

Acct21109 == Str(<<"2", "1", "1", "0", "9">>)
Acct21142 == Str(<<"2", "1", "1", "4", "2", "-", "A", "P">>)
Acct21110 == Str(<<" ", "2", "1", "1", "1", "0">>)
Acct21117 == Str(<<"2", "1", "1", "1", "7", "0">>)
Acct13150 == Str(<<"1", "3", "1", "5", "0", " ", "A">>)
Acct99999 == Str(<<"9", "9", "9", "9", "9">>)
AcctText == Str(<<"A", "P">>)

AccountCells ==
  {Acct21109, Acct21142, Acct21110, Acct21117, Acct13150, Acct99999, AcctText, NA}

TypeCells ==
  {Str(<<"Vendor", " ", "Bill">>), Str(<<"Bill">>), Str(<<"VendorBill">>),
   Str(<<"Bill", " ", "Credit">>), Str(<<"Item", " ", "\t", "Receipt">>),
   Str(<<"Vendor", " ", "Credit">>), Str(<<"JOURNAL">>),
   Str(<<" ", "Journal", " ", "Entry">>), Str(<<"BillPayment">>),
   Str(<<"Bill", " ", "Payment", " ">>), Str(<<"Vendor", " ", "Prepayment">>),
   Str(<<"VendorPrepayment", " ", "Application">>), Str(<<"Check">>), NA}

----------------------------------------------------------------------------
(* Specification of the classifier: tables of rows inside the window whose *)
(* account, type and amount vary.                                           *)

MaxClassifyRows == 1

ClassifyRows ==
  {Row(Day(2), Str(a), acc, t, Acme, MerchOk, CategoryOk) :
     a \in {Chars5, CharsBad}, acc \in AccountCells, t \in TypeCells}

InitClassify == InitWith(Tables(AllCols, ClassifyRows, MaxClassifyRows))
NextClassify == AggregateVendorDataByDate(Day(1), Day(3))
SpecClassify == InitClassify /\ [][NextClassify]_vars

----------------------------------------------------------------------------
(* Specification of the account code extraction: one row whose account     *)
(* text is any text over a small alphabet.                                  *)

MaxAcctLen == 6
AcctAlphabet == {"1", "2", " ", "A"}

AcctTexts == UNION {[1..k -> AcctAlphabet] : k \in 0..MaxAcctLen}

InitAcct ==
  InitWith({[cols |-> AllCols,
             rows |-> <<Row(Day(2), Str(Chars5), Str(t), Str(<<"Journal">>),
                            Acme, MerchOk, CategoryOk)>>] : t \in AcctTexts})
NextAcct == AggregateVendorDataByDate(Day(1), Day(3))
SpecAcct == InitAcct /\ [][NextAcct]_vars

----------------------------------------------------------------------------
(* Properties of the classifier *)

Labels == {"accrued", "bill", "payment", "adjustments", "other"}
Aggregated == op = "aggregate" /\ outcome = "ok"

Contributions(w) == w.AccruedPurchases + w.Bill + w.Payment + w.Adjustments
TakenFromAmount(w) ==
  {c \in {"AccruedPurchases", "Bill", "Payment", "Adjustments"} : w[c] # 0}

\* C1: every row inside the window has one label of the five; its four
\* contributions sum to its normalized amount when the label is not "other"
\* and to 0 when it is; at most one contribution is taken from the amount.
C1_OneLabelNoDoubleCount ==
  Aggregated =>
    /\ Len(tmp) = Len(df.rows)
    /\ \A i \in 1..Len(tmp) :
         /\ tmp[i]._class \in Labels
         /\ Contributions(tmp[i]) = (IF tmp[i]._class = "other" THEN 0 ELSE tmp[i]._amt)
         /\ Cardinality(TakenFromAmount(tmp[i])) <= 1

C1_Witness ==
  /\ Aggregated
  /\ \E i \in 1..Len(tmp) :
       tmp[i]._class = "bill" /\ tmp[i]._amt = 500 /\ tmp[i].Bill = 500

\* The rule table of the specification, in its order of evaluation.
RuleAccounts(label) ==
  CASE label = "payment" -> {13150, 21110, 21117}
    [] label = "accrued" -> {21109, 21142}
    [] label = "bill" -> {21142, 21110, 21117}

RuleTypes(label) ==
  CASE label = "payment" -> {<<"bill", " ", "payment">>, <<"vendor", " ", "prepayment">>,
                             <<"vendor", " ", "prepayment", " ", "application">>}
    [] label = "accrued" -> {<<"vendor", " ", "bill">>, <<"bill", " ", "credit">>,
                             <<"item", " ", "receipt">>}
    [] label = "bill" -> {<<"vendor", " ", "bill">>, <<"bill", " ", "credit">>,
                          <<"vendor", " ", "credit">>, <<"journal">>}

RuleMatches(label, acct, type) ==
  IF label = "adjustments"
  THEN type = <<"journal">> /\ acct \notin RuleAccounts("bill")
  ELSE acct \in RuleAccounts(label) /\ type \in RuleTypes(label)

Precedence == <<"payment", "accrued", "bill", "adjustments">>

FirstMatch(acct, type) ==
  LET hits == {k \in 1..Len(Precedence) : RuleMatches(Precedence[k], acct, type)}
  IN IF hits = {} THEN "other"
     ELSE Precedence[CHOOSE k \in hits : \A j \in hits : k <= j]

\* C2: the class of every row is the first rule that matches in the order
\* Payment, Accrued Purchases, Bill, Adjustments, and "other" when none does;
\* a row matching Payment and Bill is Payment, a row matching Accrued
\* Purchases and Bill is Accrued Purchases.
C2_FirstMatchingRule ==
  Aggregated =>
    \A i \in 1..Len(tmp) :
      LET w == tmp[i] IN
      /\ w._class = FirstMatch(w._acct, w._type)
      /\ RuleMatches("payment", w._acct, w._type) /\ RuleMatches("bill", w._acct, w._type)
           => w._class = "payment"
      /\ RuleMatches("accrued", w._acct, w._type) /\ RuleMatches("bill", w._acct, w._type)
           => w._class = "accrued" /\ w._acct = 21142

C2_Witness ==
  /\ Aggregated
  /\ \E i \in 1..Len(tmp) :
       /\ tmp[i]._acct = 21142
       /\ tmp[i]._type = <<"vendor", " ", "bill">>
       /\ df.rows[tmp[i].idx].Type = Str(<<"Bill">>)
       /\ tmp[i]._class = "accrued"

\* C10: a row inside the window whose canonical type is "journal" and whose
\* account yields no code is classified Adjustments, and its amount is part
\* of its vendor's Adjustments sum.
C10_NoCodeJournalIsAdjustment ==
  Aggregated =>
    /\ \A i \in 1..Len(tmp) :
         tmp[i]._type = <<"journal">> /\ tmp[i]._acct = NoCode
           => tmp[i]._class = "adjustments" /\ tmp[i].Adjustments = tmp[i]._amt
    /\ \A j \in 1..Len(out.rows) :
         out.rows[j].Adjustments =
           SumCol(SelectSeq(tmp, LAMBDA w : w.Name = out.rows[j].Vendor /\ w._type = <<"journal">>
                                             /\ w._acct \notin {21142, 21110, 21117}), "_amt")

C10_Witness ==
  /\ Aggregated
  /\ Len(out.rows) = 1
  /\ out.rows[1].Adjustments = 500
  /\ \E i \in 1..Len(tmp) :
       /\ tmp[i]._acct = NoCode
       /\ tmp[i]._type = <<"journal">>
       /\ df.rows[tmp[i].idx].Account = AcctText

----------------------------------------------------------------------------
(* Properties of the account code extraction *)

AcctTextOf(i) == AsTypeStr(df.rows[i].Account)

\* The text has five digits right after its leading whitespace, the
\* whitespace being the first k characters.
LeadingFiveAt(t, k) ==
  /\ k + 5 <= Len(t)
  /\ \A i \in 1..k : t[i] \in WS
  /\ \A i \in (k + 1)..(k + 5) : t[i] \in Digits

\* C3 as amended: the account code is the five digits that follow the
\* leading whitespace of the text, whatever comes after them; a text that
\* does not start that way has no code.
C3_LeadingFiveDigits ==
  Aggregated =>
    \A i \in 1..Len(tmp) :
      LET t == AcctTextOf(tmp[i].idx) IN
      /\ tmp[i]._acct # NoCode <=> \E k \in 0..Len(t) : LeadingFiveAt(t, k)
      /\ \A k \in 0..Len(t) :
           LeadingFiveAt(t, k) => tmp[i]._acct = DigitsValue(SubSeq(t, k + 1, k + 5))

C3_Witness ==
  /\ Aggregated
  /\ Len(tmp) = 1
  /\ AcctTextOf(1) = <<" ", "1", "2", "1", "2", "1">>
  /\ tmp[1]._acct = 12121

\* A run of exactly five digits starts at position i of t.
RunOfExactlyFiveAt(t, i) ==
  /\ i + 4 <= Len(t)
  /\ \A j \in i..(i + 4) : t[j] \in Digits
  /\ i = 1 \/ t[i - 1] \notin Digits
  /\ i + 5 > Len(t) \/ t[i + 5] \notin Digits

FirstRunOfExactlyFive(t) ==
  LET starts == {i \in 1..Len(t) : RunOfExactlyFiveAt(t, i)}
  IN IF starts = {} THEN NoCode
     ELSE LET i == CHOOSE x \in starts : \A y \in starts : x <= y
          IN DigitsValue(SubSeq(t, i, i + 4))

\* C3 as stated: the account code is the first run of exactly five digits
\* anywhere in the text.
C3_FirstRunOfExactlyFiveDigits ==
  Aggregated =>
    \A i \in 1..Len(tmp) : tmp[i]._acct = FirstRunOfExactlyFive(AcctTextOf(tmp[i].idx))

----------------------------------------------------------------------------
(* Specification of the grouping: tables whose rows vary in vendor, class, *)
(* amount and position relative to the window.                              *)

MaxGroupRows == 2

ClassKinds ==
  {<<Acct21109, Str(<<"Item", " ", "\t", "Receipt">>)>>,
   <<Acct21110, Str(<<"Vendor", " ", "Credit">>)>>,
   <<Acct13150, Str(<<"BillPayment">>)>>,
   <<AcctText, Str(<<"JOURNAL">>)>>,
   <<Acct99999, Str(<<"Check">>)>>}

GroupRows ==
  {Row(d, Str(a), k[1], k[2], v, MerchOk, CategoryOk) :
     d \in {Day(2)}, a \in {Chars5, CharsNeg2, CharsBad}, k \in ClassKinds,
     v \in {Acme, Str(<<"acme">>), NA}}
  \cup
  {Row(Day(4), Str(Chars5), k[1], k[2], v, MerchOk, CategoryOk) :
     k \in ClassKinds, v \in {Acme, Str(<<"acme">>), NA}}

InitGroup == InitWith(Tables(AllCols, GroupRows, MaxGroupRows))
NextGroup == AggregateVendorDataByDate(Day(1), Day(3))
SpecGroup == InitGroup /\ [][NextGroup]_vars

\* The calendar day a parseable date cell names.
DayOf(c) == IndexOf(DayTokens, c.text[1])

\* The rows of the input inside the window of the call.
RowsInWindow ==
  {i \in 1..Len(df.rows) :
     /\ DateParses(df.rows[i].Date)
     /\ DayOf(args[1]) <= DayOf(df.rows[i].Date)
     /\ DayOf(df.rows[i].Date) <= DayOf(args[2])}

VendorsInWindow ==
  {df.rows[i].Name : i \in {j \in RowsInWindow : df.rows[j].Name.kind = "str"}}

ClassSum(vendor, col) ==
  SumCol(SelectSeq(tmp, LAMBDA w : w.Name = vendor), col)

\* C4: the summary has exactly one row per distinct vendor name carried by
\* a row inside the window and no other row; each of its four sums is the
\* sum of that class's contributions over the vendor's rows inside the
\* window (zero when they are all "other" or unparseable); with no row
\* inside the window it has zero rows and the five-column schema.
C4_OneRowPerVendor ==
  Aggregated =>
    /\ out.cols = {"Vendor", "Accrued Purchases", "Adjustments", "Bill", "Payment"}
    /\ {out.rows[j].Vendor : j \in 1..Len(out.rows)} = VendorsInWindow
    /\ Len(out.rows) = Cardinality(VendorsInWindow)
    /\ {tmp[i].idx : i \in 1..Len(tmp)} = RowsInWindow
    /\ \A j \in 1..Len(out.rows) :
         LET v == out.rows[j].Vendor IN
         /\ out.rows[j].AccruedPurchases = ClassSum(v, "AccruedPurchases")
         /\ out.rows[j].Adjustments = ClassSum(v, "Adjustments")
         /\ out.rows[j].Bill = ClassSum(v, "Bill")
         /\ out.rows[j].Payment = ClassSum(v, "Payment")
    /\ RowsInWindow = {} => out.rows = <<>>

\* Two vendors inside the window: one with two payments that are summed,
\* one whose only row is "other" and who appears with four zero sums.
C4_Witness ==
  /\ Aggregated
  /\ Len(df.rows) = 2
  /\ Len(out.rows) = 2
  /\ \E j \in 1..2 :
       /\ out.rows[j].AccruedPurchases = 0 /\ out.rows[j].Adjustments = 0
       /\ out.rows[j].Bill = 0 /\ out.rows[j].Payment = 0
       /\ \E i \in 1..Len(tmp) : tmp[i].Name = out.rows[j].Vendor /\ tmp[i]._class = "other"
  /\ \E j \in 1..2 : out.rows[j].Payment = -200

C4_WitnessEmptyWindow ==
  /\ Aggregated
  /\ Len(df.rows) = 2
  /\ RowsInWindow = {}
  /\ out.rows = <<>>

----------------------------------------------------------------------------
(* Specification of the date window: rows and window bounds vary over the  *)
(* days, the times of day and the texts that are no date.                   *)

MaxDay == 3
MaxWindowRows == 1

DateCells ==
  {Day(d) : d \in 1..MaxDay}
    \cup {DayTime(d, t) : d \in 1..MaxDay, t \in 1..Len(TimeTokens)}
    \cup {BadDate, NA}

GoodRow(d) == Row(d, Str(Chars5), Acct13150, Str(<<"BillPayment">>), Acme, MerchOk, CategoryOk)
MalformedRow(d) == Row(d, Str(CharsBad), NA, Str(<<"???">>), NA, NA, NA)

WindowRows == {GoodRow(d) : d \in DateCells} \cup {MalformedRow(d) : d \in DateCells}

InitWindow == InitWith(Tables(AllCols, WindowRows, MaxWindowRows))
\* The bounds of the window are texts or timestamps; a bound that already is
\* a missing value is no input of this specification.
ArgCells == DateCells \ {NA}

\* One call per input table, with any window.
NextWindow ==
  op = "none" /\ \E s \in ArgCells, e \in ArgCells : AggregateVendorDataByDate(s, e)
SpecWindow == InitWindow /\ [][NextWindow]_vars

WindowValid ==
  /\ DateParses(args[1])
  /\ DateParses(args[2])
  /\ DayOf(args[1]) <= DayOf(args[2])

\* C5: a row is aggregated if and only if its date, truncated to the day,
\* lies between the start day and the end day, both included, whatever its
\* time of day; a row whose date cannot be parsed is left out and raises
\* nothing.
C5_InclusiveDayWindow ==
  op = "aggregate" /\ WindowValid =>
    /\ outcome = "ok"
    /\ {tmp[i].idx : i \in 1..Len(tmp)} = RowsInWindow

\* A row late on the end day is inside a window that ends on that day.
C5_Witness ==
  /\ Aggregated
  /\ Len(df.rows) = 1
  /\ df.rows[1].Date = DayTime(2, 2)
  /\ args = <<Day(1), Day(2)>>
  /\ Len(tmp) = 1

\* C8: with all required columns present, the call ends in a validation
\* error, with no table returned, if and only if a bound of the window is
\* no calendar date or the start day is after the end day; start = end is
\* accepted and nothing the rows hold raises.
C8_ValidationErrorIffBadWindow ==
  op = "aggregate" =>
    /\ outcome \in {"ok", "ValueError"}
    /\ outcome = "ValueError" <=> ~WindowValid
    /\ outcome = "ValueError" => out = NoTable /\ tmp = <<>>

\* A one-day window over a row that is malformed in every field.
C8_Witness ==
  /\ op = "aggregate"
  /\ outcome = "ok"
  /\ args = <<Day(2), DayTime(2, 2)>>
  /\ Len(df.rows) = 1
  /\ df.rows[1] = MalformedRow(BadDate)

----------------------------------------------------------------------------
(* Specification of the filter: rows vary in amount, merch and category.   *)

MaxFilterRows == 2

CharsPadded5 == <<" ", "$", "5", " ">>
CategoryLoose == Str(<<" ", "home", " ", "SERVICES", "\t">>)
CategoryTwoSpaces == Str(<<"Home", " ", " ", "Services">>)

FilterRows ==
  {Row(Day(2), a, Acct21142, Str(<<"Bill">>), Acme, m, c) :
     a \in {Str(CharsPadded5), Str(CharsBig), Str(CharsZero), Str(CharsBad), NA},
     m \in {MerchOk, Str(<<"merch">>), NA},
     c \in {CategoryLoose, CategoryTwoSpaces, NA}}

InitFilter == InitWith(Tables(AllCols, FilterRows, MaxFilterRows))
NextFilter == FilterApAnalysis
SpecFilter == InitFilter /\ [][NextFilter]_vars

\* The amounts the texts of FilterRows stand for, in hundredths; the other
\* texts are no number.
ExpectedAmount(c) ==
  CASE c = Str(CharsPadded5) -> 500
    [] c = Str(CharsBig) -> -123456
    [] c = Str(CharsZero) -> 0

AmountParseable(c) == c \in {Str(CharsPadded5), Str(CharsBig), Str(CharsZero)}

FilterKeeps(r) ==
  /\ AmountParseable(r.Amount) /\ ExpectedAmount(r.Amount) # 0
  /\ r.merchType = Str(<<"Merch">>)
  /\ r.Category = CategoryLoose

Kept == {i \in 1..Len(df.rows) : FilterKeeps(df.rows[i])}

\* The j-th smallest element of a set of indices.
Nth(S, j) == CHOOSE i \in S : Cardinality({k \in S : k < i}) = j - 1

\* C6: with the three columns present the filter returns exactly the input
\* rows, in their order, whose amount is a number other than zero, whose
\* merch value is exactly the kept one (a missing value is not) and whose
\* category, trimmed and case-folded, is the kept one.
C6_FilterKeepsExactly ==
  op = "filter" =>
    /\ outcome = "ok"
    /\ Len(out.rows) = Cardinality(Kept)
    /\ \A j \in 1..Len(out.rows) :
         LET r == df.rows[Nth(Kept, j)]
         IN out.rows[j] = [r EXCEPT !.Amount = Num(ExpectedAmount(r.Amount))]

\* Two rows kept in their order, and a "$0.00" row with the kept merch and
\* category left out.
C6_Witness ==
  /\ op = "filter"
  /\ Len(df.rows) = 2
  /\ Len(out.rows) = 2
  /\ out.rows[1].Amount = Num(-123456)
  /\ out.rows[2].Amount = Num(500)

C6_WitnessZero ==
  /\ op = "filter"
  /\ \E i \in 1..Len(df.rows) :
       df.rows[i] = Row(Day(2), Str(CharsZero), Acct21142, Str(<<"Bill">>), Acme,
                        MerchOk, CategoryLoose)
  /\ out.rows = <<>>

----------------------------------------------------------------------------
(* Specification of the schema checks: the table has any subset of the     *)
(* columns.                                                                 *)

SchemaTables ==
  {[cols |-> c, rows |-> r] :
     c \in SUBSET AllCols,
     r \in {<<>>, <<GoodRow(Day(2))>>, <<MalformedRow(BadDate)>>}}

InitSchema == InitWith(SchemaTables)
NextSchema ==
  \/ FilterApAnalysis
  \/ \E a \in {<<Day(1), Day(3)>>, <<BadDate, Day(1)>>} :
       AggregateVendorDataByDate(a[1], a[2])
SpecSchema == InitSchema /\ [][NextSchema]_vars

FilterRequired == {"Amount", "merchType", "Category"}
FilterCheckOrder == <<"Amount", "merchType", "Category">>

RequiredOf(o) == IF o = "filter" THEN FilterRequired
                 ELSE {"Date", "Amount", "Account", "Type", "Name"}

LacksRequired == op \in {"filter", "aggregate"} /\ RequiredOf(op) \ df.cols # {}

C7_WitnessFilter ==
  /\ op = "filter"
  /\ outcome = "KeyError"
  /\ errFields = {"merchType"}
  /\ "Category" \notin df.cols

----------------------------------------------------------------------------
(* Specification of the program: filter, then aggregate the report, on     *)
(* tables with or without their columns; either stage may be called again. *)

MaxRows == 2

MainRows ==
  {Row(d, Str(a), Acct21142, Str(<<"Bill">>), v, m, CategoryOk) :
     d \in {Day(2), BadDate}, a \in {CharsNeg2, CharsBad}, v \in {Acme, NA},
     m \in {MerchOk, NA}}

MainCols ==
  {AllCols, AllCols \ {"Amount"}, AllCols \ {"Category"}, AllCols \ {"Date", "Name"}}

MainArgs == {<<Day(1), Day(3)>>, <<Day(3), Day(1)>>, <<BadDate, Day(3)>>}

Init == InitWith(UNION {Tables(c, MainRows, MaxRows) : c \in MainCols})
Next ==
  \/ FilterApAnalysis
  \/ \E a \in MainArgs : AggregateVendorDataByDate(a[1], a[2])
  \/ UseReport
Spec == Init /\ [][Next]_vars

\* C9: a call of either stage leaves its input table as it was, whatever
\* the outcome, so that calling it again with the same arguments gives the
\* same outcome and the same table.
C9_InputUnchanged ==
  [][op' \in {"filter", "aggregate"} =>
       /\ df' = df
       /\ (op' = op /\ args' = args) =>
            (outcome' = outcome /\ errFields' = errFields /\ out' = out)]_vars

\* The filter returned rows with numeric amounts while the input still
\* holds the amount texts.
C9_Witness ==
  /\ op = "filter"
  /\ outcome = "ok"
  /\ Len(out.rows) = 2
  /\ \A i \in 1..2 : out.rows[i].Amount.kind = "num" /\ df.rows[i].Amount = Str(CharsNeg2)

====
